---------------------------- MODULE Spec2Model ----------------------------
(***************************************************************************)
(* Model of the sitemap-to-CSV converter (SitemapConverter component):     *)
(* the sanitizer cleanXmlContent, the parse operation parseSitemap with    *)
(* its DOM queries, the CSV serialization in downloadCSV, and the React    *)
(* state the handlers read and write.                                      *)
(*                                                                         *)
(* A JavaScript string is modelled as the sequence of its characters, each *)
(* character a one-character TLA+ string; Chars turns a literal into that  *)
(* form.  Positions returned by the string operators follow JavaScript:    *)
(* they count from 0, and -1 means "not found".                            *)
(***************************************************************************)
EXTENDS Integers, Sequences, FiniteSets, TLC

Chars(s) == [i \in 1..Len(s) |-> SubSeq(s, i, i)]

----------------------------------------------------------------------------
(* String primitives of the JavaScript runtime used by the source.         *)

UpperAZ == Chars("ABCDEFGHIJKLMNOPQRSTUVWXYZ")
LowerAZ == Chars("abcdefghijklmnopqrstuvwxyz")

UpperChars == {UpperAZ[i] : i \in 1..26}
UpperToLower == [c \in UpperChars |-> LowerAZ[CHOOSE i \in 1..26 : UpperAZ[i] = c]]

\* the /i flag: characters compare equal when their lower-case forms agree
ToLowerChar(c) == IF c \in UpperChars THEN UpperToLower[c] ELSE c

\* least element of a non-empty finite set of integers
Min(S) == CHOOSE x \in S : \A y \in S : x <= y

IsWhite(c) == c \in {" ", "\n", "\t", "\r"}

\* index of the first / last character that is not white space (0: none)
FirstNonWhite(s) ==
  IF \A i \in 1..Len(s) : IsWhite(s[i]) THEN 0
  ELSE CHOOSE i \in 1..Len(s) : ~IsWhite(s[i]) /\ \A j \in 1..(i - 1) : IsWhite(s[j])

LastNonWhite(s) ==
  IF \A i \in 1..Len(s) : IsWhite(s[i]) THEN 0
  ELSE Len(s) + 1 - (CHOOSE d \in 1..Len(s) :
                       /\ ~IsWhite(s[Len(s) + 1 - d])
                       /\ \A j \in 1..(d - 1) : IsWhite(s[Len(s) + 1 - j]))

TrimStart(s) ==
  LET first == FirstNonWhite(s)
  IN  IF first = 0 THEN <<>> ELSE SubSeq(s, first, Len(s))

TrimEnd(s) ==
  LET last == LastNonWhite(s)
  IN  IF last = 0 THEN <<>> ELSE SubSeq(s, 1, last)

\* String.prototype.trim
Trim(s) == TrimEnd(TrimStart(s))

\* the literal pat occurs in s at 1-based position i, ignoring letter case
MatchAtCI(s, i, pat) ==
  /\ i >= 1
  /\ i + Len(pat) - 1 <= Len(s)
  /\ \A k \in 1..Len(pat) : ToLowerChar(s[i + k - 1]) = ToLowerChar(pat[k])

\* 1-based position of the first occurrence of pat at or after i (0: none)
NextMatchCI(s, i, pat) ==
  LET last == Len(s) - Len(pat) + 1
  IN  IF \A m \in i..last : ~MatchAtCI(s, m, pat) THEN 0
      ELSE CHOOSE m \in i..last :
             MatchAtCI(s, m, pat) /\ \A j \in i..(m - 1) : ~MatchAtCI(s, j, pat)

RECURSIVE ReplaceFrom(_, _, _)
ReplaceFrom(s, i, pat) ==
  LET m == NextMatchCI(s, i, pat)
  IN  IF m = 0 THEN SubSeq(s, i, Len(s))
      ELSE SubSeq(s, i, m - 1) \o ReplaceFrom(s, m + Len(pat), pat)

\* s.replace(/pat/gi, ""): every non-overlapping occurrence, left to right
ReplaceAllCI(s, pat) == ReplaceFrom(s, 1, pat)

\* s.search(/pat/i): 0-based position of the first occurrence, or -1
SearchCI(s, pat) == NextMatchCI(s, 1, pat) - 1

\* s.substring(start), start 0-based
Substring(s, start) == SubSeq(s, start + 1, Len(s))

\* 1-based position of the first character c at or after i (0: none)
NextChar(s, i, c) ==
  IF \A m \in i..Len(s) : s[m] # c THEN 0
  ELSE CHOOSE m \in i..Len(s) : s[m] = c /\ \A j \in i..(m - 1) : s[j] # c

RECURSIVE SplitFrom(_, _, _)
SplitFrom(s, i, c) ==
  LET m == NextChar(s, i, c)
  IN  IF m = 0 THEN <<SubSeq(s, i, Len(s))>>
      ELSE <<SubSeq(s, i, m - 1)>> \o SplitFrom(s, m + 1, c)

\* s.split("\n"): always at least one line
SplitLines(s) == SplitFrom(s, 1, "\n")

\* parts lo..hi with sep between them, joined half by half
RECURSIVE JoinRange(_, _, _, _)
JoinRange(parts, sep, lo, hi) ==
  IF lo = hi THEN parts[lo]
  ELSE JoinRange(parts, sep, lo, (lo + hi) \div 2) \o sep
         \o JoinRange(parts, sep, (lo + hi) \div 2 + 1, hi)

JoinWith(parts, sep) ==
  IF parts = <<>> THEN <<>> ELSE JoinRange(parts, sep, 1, Len(parts))

\* Array.prototype.slice(from), from 0-based
SliceFrom(arr, from) == SubSeq(arr, from + 1, Len(arr))

StartsWith(s, pre) ==
  /\ Len(pre) <= Len(s)
  /\ SubSeq(s, 1, Len(pre)) = pre

----------------------------------------------------------------------------
(* cleanXmlContent                                                         *)

BrowserMessages ==
  << Chars("This XML file does not appear to have any style information associated with it."),
     Chars("The document tree is shown below."),
     Chars("This page contains the following errors:"),
     Chars("Below is a rendering of the page up to the first error.") >>

\* variant: a sixth pattern, for the url element
xmlStartPatternsWithUrl ==
  << Chars("<?xml"), Chars("<urlset"), Chars("<sitemapindex"),
     Chars("<rss"), Chars("<feed"), Chars("<url") >>

xmlStartPatterns ==
  << Chars("<?xml"), Chars("<urlset"), Chars("<sitemapindex"),
     Chars("<rss"), Chars("<feed") >>

\* the chained .replace(...) calls followed by .trim()
StripMessages(content) ==
  Trim(ReplaceAllCI(ReplaceAllCI(ReplaceAllCI(ReplaceAllCI(content,
         BrowserMessages[1]), BrowserMessages[2]), BrowserMessages[3]),
         BrowserMessages[4]))

\* the for-of loop: the first pattern of the list that occurs anywhere
\* decides xmlStart; later patterns are not tried
XmlStart(cleaned) ==
  LET match   == [p \in 1..Len(xmlStartPatterns) |-> SearchCI(cleaned, xmlStartPatterns[p])]
      matched == { p \in 1..Len(xmlStartPatterns) : match[p] # -1 }
  IN  IF matched = {} THEN -1 ELSE match[Min(matched)]

\* variant: the cut made one character after xmlStart
CutAfterXmlStart(cleaned) ==
  LET xmlStart == XmlStart(cleaned)
  IN  IF xmlStart # -1 THEN Substring(cleaned, xmlStart + 1) ELSE cleaned

CutAtXmlStart(cleaned) ==
  LET xmlStart == XmlStart(cleaned)
  IN  IF xmlStart # -1 THEN Substring(cleaned, xmlStart) ELSE cleaned

\* variant: a blank line does not stop the scan
IsXmlLineNotBlank(line) == StartsWith(Trim(line), <<"<">>)

IsXmlLine(line) ==
  LET trimmedLine == Trim(line)
  IN  StartsWith(trimmedLine, <<"<">>) \/ trimmedLine = <<>>

\* the index loop over lines: the first line that starts with "<" or is blank;
\* 0 when there is none
FirstXmlLine(lines) ==
  LET at == { i \in 1..Len(lines) : IsXmlLine(lines[i]) }
  IN  IF at = {} THEN 0 ELSE Min(at) - 1

SliceLines(cleaned, lines, firstXmlLine) ==
  IF firstXmlLine > 0
    THEN JoinWith(SliceFrom(lines, firstXmlLine), <<"\n">>)
    ELSE cleaned

DropLeadingLines(cleaned) ==
  SliceLines(cleaned, SplitLines(cleaned), FirstXmlLine(SplitLines(cleaned)))

cleanXmlContent(content) ==
  Trim(DropLeadingLines(CutAtXmlStart(StripMessages(content))))

----------------------------------------------------------------------------
(* DOMParser.parseFromString(text, "text/xml") and the DOM queries.        *)
(*                                                                         *)
(* The browser's XML parser is modelled on the subset of XML that sitemaps *)
(* are written in: an optional XML declaration, elements with optional     *)
(* namespace prefixes, quoted attributes, self-closing tags and character  *)
(* data.  Comments, CDATA sections, DOCTYPE and entity references are      *)
(* outside the subset, and no input of the model contains them.  A         *)
(* document is the sequence of its nodes in document order, each with its  *)
(* depth; the descendants of a node are the nodes that follow it at a      *)
(* greater depth, up to the first node that is not deeper.  A "<" inside a  *)
(* processing instruction is outside the subset as well.                   *)

NameStartChars ==
  {UpperAZ[i] : i \in 1..26} \cup {LowerAZ[i] : i \in 1..26} \cup {"_"}
NameChars ==
  NameStartChars \cup {"0", "1", "2", "3", "4", "5", "6", "7", "8", "9", "-", "."}

\* an NCName: no colon
IsNCName(n) ==
  /\ n # <<>>
  /\ n[1] \in NameStartChars
  /\ \A i \in 1..Len(n) : n[i] \in NameChars

\* a qualified name: NCName or prefix:NCName
IsQName(n) ==
  LET colon == NextChar(n, 1, ":")
  IN  IF colon = 0 THEN IsNCName(n)
      ELSE IsNCName(SubSeq(n, 1, colon - 1)) /\ IsNCName(SubSeq(n, colon + 1, Len(n)))

PrefixOf(n) ==
  LET colon == NextChar(n, 1, ":")
  IN  IF colon = 0 THEN <<>> ELSE SubSeq(n, 1, colon - 1)

LocalNameOf(n) ==
  LET colon == NextChar(n, 1, ":")
  IN  IF colon = 0 THEN n ELSE SubSeq(n, colon + 1, Len(n))

ElementNode(qname, attrs, depth) ==
  [kind |-> "element", prefix |-> PrefixOf(qname), name |-> LocalNameOf(qname),
   attrs |-> attrs, text |-> <<>>, depth |-> depth]

TextNode(text, depth) ==
  [kind |-> "text", prefix |-> <<>>, name |-> <<>>, attrs |-> <<>>,
   text |-> text, depth |-> depth]

\* what the parser returns for text that is not well-formed: a document
\* whose <parsererror> element holds the error report
ParserErrorDocument ==
  << ElementNode(Chars("parsererror"), <<>>, 0), TextNode(Chars("XML Parsing Error"), 1) >>

AttrsFailed == [ok |-> FALSE, attrs |-> <<>>]

\* The attributes of a start tag: name="value" pairs separated by white
\* space.  ParseAttrs takes what follows the tag name; the operators before it
\* are its stages for one attribute.
RECURSIVE ParseAttrs(_, _)

\* the value closes at position close of after; the next attribute follows
AttrClose(aname, after, close, acc) ==
  IF close = 0 THEN AttrsFailed
  ELSE IF \E i \in 2..(close - 1) : after[i] = "<" THEN AttrsFailed
  ELSE IF \E i \in 1..Len(acc) : acc[i].name = aname THEN AttrsFailed
  ELSE IF close < Len(after) /\ ~IsWhite(after[close + 1]) THEN AttrsFailed
  ELSE ParseAttrs(SubSeq(after, close + 1, Len(after)),
                  Append(acc, [name |-> aname, value |-> SubSeq(after, 2, close - 1)]))

\* after: what follows the "=", which must open with a quote
AttrValue(aname, after, acc) ==
  IF ~IsQName(aname) \/ after = <<>> THEN AttrsFailed
  ELSE IF after[1] \notin {"\"", "'"} THEN AttrsFailed
  ELSE AttrClose(aname, after, NextChar(after, 2, after[1]), acc)

\* r: the rest of the tag, starting at an attribute name; eq: its first "="
AttrName(r, eq, acc) ==
  IF eq = 0 THEN AttrsFailed
  ELSE AttrValue(TrimEnd(SubSeq(r, 1, eq - 1)), TrimStart(SubSeq(r, eq + 1, Len(r))), acc)

ParseAttrs(rest, acc) ==
  IF TrimStart(rest) = <<>> THEN [ok |-> TRUE, attrs |-> acc]
  ELSE AttrName(TrimStart(rest), NextChar(TrimStart(rest), 1, "="), acc)

\* the namespace prefixes a start tag declares (xmlns:p="...")
DeclaredPrefixes(attrs) ==
  { LocalNameOf(attrs[i].name) :
      i \in { k \in 1..Len(attrs) : PrefixOf(attrs[k].name) = Chars("xmlns") } }

\* position of the last character of the tag name in tag
NameEnd(tag) ==
  IF \A k \in 1..Len(tag) : ~IsWhite(tag[k]) THEN Len(tag)
  ELSE (CHOOSE k \in 1..Len(tag) :
          IsWhite(tag[k]) /\ \A j \in 1..(k - 1) : ~IsWhite(tag[j])) - 1

\* The text is cut into tokens at its "<" characters: a markup token runs
\* from a "<" to the next ">", and the characters between two markup tokens
\* are a character-data token.  A token record carries the kind of the token
\* (tag), and for a tag its qualified name and attributes.
Positions(s) == [i \in 1..Len(s) |-> i]

IsOpen(s, i) == s[i] = "<"

\* the positions of the "<" characters of s, ascending
Opens(s) == SelectSeq(Positions(s), LAMBDA i : IsOpen(s, i))

BadToken == [tag |-> "bad", qname |-> <<>>, attrs |-> <<>>, text |-> <<>>]

TextToken(text) == [tag |-> "text", qname |-> <<>>, attrs |-> <<>>, text |-> text]

\* a start tag or empty-element tag, its name and attributes split
StartTag(qname, parsed, selfEnd) ==
  IF ~IsQName(qname) \/ ~parsed.ok THEN BadToken
  ELSE [tag |-> IF selfEnd THEN "empty" ELSE "start",
        qname |-> qname, attrs |-> parsed.attrs, text |-> <<>>]

SplitTag(tag, selfEnd) ==
  StartTag(SubSeq(tag, 1, NameEnd(tag)),
           ParseAttrs(SubSeq(tag, NameEnd(tag) + 1, Len(tag)), <<>>),
           selfEnd)

EndTag(qname) == [tag |-> "end", qname |-> qname, attrs |-> <<>>, text |-> <<>>]

\* the XML declaration or a processing instruction; the declaration is
\* allowed at the very start of the text only
Instruction(i, body) ==
  IF Len(body) < 3 \/ body[Len(body)] # "?" THEN BadToken
  ELSE IF /\ MatchAtCI(body, 2, Chars("xml"))
          /\ (IsWhite(body[5]) \/ Len(body) = 5)
          /\ i # 1
    THEN BadToken
  ELSE [tag |-> "instruction", qname |-> <<>>, attrs |-> <<>>, text |-> <<>>]

\* body: the text between the "<" at position i and the next ">"
Markup(i, body) ==
  IF body = <<>> THEN BadToken
  ELSE IF body[1] = "?" THEN Instruction(i, body)
  ELSE IF body[1] = "/" THEN EndTag(TrimEnd(Tail(body)))
  ELSE IF body[Len(body)] = "/" THEN SplitTag(SubSeq(body, 1, Len(body) - 1), TRUE)
  ELSE SplitTag(body, FALSE)

\* position of the "<" after the k-th one, or one past the end of s
Limit(s, opens, k) == IF k < Len(opens) THEN opens[k + 1] ELSE Len(s) + 1

\* the markup token opened at open and closed at close; it is broken when
\* there is no ">" or another "<" comes first
MarkupAt(s, open, close, limit) ==
  IF close = 0 \/ close > limit THEN BadToken
  ELSE Markup(open, SubSeq(s, open + 1, close - 1))

\* the character data between the markup token closed at close and limit
TextAfter(s, close, limit) ==
  IF close = 0 \/ close > limit THEN TextToken(<<>>)
  ELSE TextToken(SubSeq(s, close + 1, limit - 1))

\* slot 1 is the character data before the first "<"; slots 2k and 2k+1 are
\* the k-th markup token and the character data after it
Slot(s, opens, j) ==
  IF j = 1 THEN TextToken(SubSeq(s, 1, Limit(s, opens, 0) - 1))
  ELSE IF j % 2 = 0
    THEN MarkupAt(s, opens[j \div 2], NextChar(s, opens[j \div 2], ">"),
                  Limit(s, opens, j \div 2))
  ELSE TextAfter(s, NextChar(s, opens[(j - 1) \div 2], ">"),
                 Limit(s, opens, (j - 1) \div 2))

\* processing instructions and empty character data leave nothing behind
IsToken(t) == t.tag # "instruction" /\ (t.tag # "text" \/ t.text # <<>>)

Tokens(s, opens) ==
  SelectSeq([j \in 1..(2 * Len(opens) + 1) |-> Slot(s, opens, j)], IsToken)

\* the number of elements open where token k begins
DepthAt(toks, k) ==
  Cardinality({ j \in 1..(k - 1) : toks[j].tag = "start" })
    - Cardinality({ j \in 1..(k - 1) : toks[j].tag = "end" })

WithDepth(toks, k) ==
  [tag |-> toks[k].tag, qname |-> toks[k].qname, attrs |-> toks[k].attrs,
   text |-> toks[k].text, depth |-> DepthAt(toks, k)]

\* white space outside the document element is not part of the document
IsOuterBlank(t) == t.tag = "text" /\ t.depth <= 0 /\ Trim(t.text) = <<>>

IsNotOuterBlank(t) == ~IsOuterBlank(t)

Leveled(toks) ==
  SelectSeq([k \in 1..Len(toks) |-> WithDepth(toks, k)], IsNotOuterBlank)

Max(S) == CHOOSE x \in S : \A y \in S : y <= x

\* the start tags that could be closed by the end tag at k: one level up
OpenBefore(t, k) ==
  { j \in 1..(k - 1) : t[j].tag = "start" /\ t[j].depth = t[k].depth - 1 }

\* an end tag must close the innermost open element
EndTagMatches(t, k) ==
  /\ t[k].depth >= 1
  /\ OpenBefore(t, k) # {}
  /\ t[Max(OpenBefore(t, k))].qname = t[k].qname

\* the start tags of the elements that enclose token k
Ancestors(t, k) ==
  { j \in 1..(k - 1) :
      /\ t[j].tag = "start"
      /\ t[j].depth < t[k].depth
      /\ \A m \in (j + 1)..k : t[m].depth > t[j].depth }

\* the prefixes in scope at the tag at k
ScopeAt(t, k) ==
  { Chars("xml") } \cup UNION { DeclaredPrefixes(t[j].attrs) : j \in Ancestors(t, k) \cup {k} }

IsTag(t, k) == t[k].tag \in {"start", "empty"}

\* a tag outside every element is the document element, and there is one;
\* a prefix must be declared
TagAllowed(t, k) ==
  /\ t[k].depth = 0 => \A j \in 1..(k - 1) : IsTag(t, j) => t[j].depth # 0
  /\ PrefixOf(t[k].qname) # <<>> => PrefixOf(t[k].qname) \in ScopeAt(t, k)

WellFormedTokens(t) ==
  /\ \A k \in 1..Len(t) : t[k].tag # "bad"
  /\ \A k \in 1..Len(t) : t[k].tag = "end" => EndTagMatches(t, k)
  /\ \A k \in 1..Len(t) : IsTag(t, k) => TagAllowed(t, k)
  /\ \A k \in 1..Len(t) : t[k].tag = "text" => t[k].depth >= 1
  /\ \E k \in 1..Len(t) : IsTag(t, k) /\ t[k].depth = 0
  /\ DepthAt(t, Len(t) + 1) = 0

IsNode(t) == t.tag \in {"start", "empty", "text"}

NodeOf(t) ==
  IF t.tag = "text" THEN TextNode(t.text, t.depth)
  ELSE ElementNode(t.qname, t.attrs, t.depth)

NodesOf(ns) == [k \in 1..Len(ns) |-> NodeOf(ns[k])]

DocumentOf(t) ==
  IF WellFormedTokens(t) THEN NodesOf(SelectSeq(t, IsNode)) ELSE ParserErrorDocument

parseFromString(text) == DocumentOf(Leveled(Tokens(text, Opens(text))))

\* positions of the descendants of node i (0: the document itself)
Descendants(doc, i) ==
  IF i = 0 THEN 1..Len(doc)
  ELSE { j \in (i + 1)..Len(doc) : \A k \in (i + 1)..j : doc[k].depth > doc[i].depth }

\* ascending enumeration of a finite set of positions: document order
RECURSIVE SortedSeq(_)
SortedSeq(S) ==
  IF S = {} THEN <<>>
  ELSE LET m == CHOOSE x \in S : \A y \in S : x <= y
       IN  <<m>> \o SortedSeq(S \ {m})

\* A type selector without a namespace matches on the local name, in any
\* namespace; names is the selector list.
querySelectorAll(doc, i, names) ==
  SortedSeq({ j \in Descendants(doc, i) : doc[j].kind = "element" /\ doc[j].name \in names })

\* the first match in document order, 0 for null
querySelector(doc, i, names) ==
  LET matches == { j \in Descendants(doc, i) : doc[j].kind = "element" /\ doc[j].name \in names }
  IN  IF matches = {} THEN 0 ELSE Min(matches)

RECURSIVE ConcatAll(_)
ConcatAll(seqs) ==
  IF seqs = <<>> THEN <<>> ELSE Head(seqs) \o ConcatAll(Tail(seqs))

\* Node.textContent of element i: the text of its text descendants, in order
textContent(doc, i) ==
  LET ts == SortedSeq({ j \in Descendants(doc, i) : doc[j].kind = "text" })
  IN  ConcatAll([k \in 1..Len(ts) |-> doc[ts[k]].text])

\* variant: a missing attribute rendered as the empty text
AttributeOrEmpty(doc, i, aname) ==
  IF \E k \in 1..Len(doc[i].attrs) : doc[i].attrs[k].name = aname
    THEN doc[i].attrs[CHOOSE k \in 1..Len(doc[i].attrs) : doc[i].attrs[k].name = aname].value
    ELSE <<>>

\* element.getAttribute(name) rendered inside a template literal: the value,
\* or the text "null" when the attribute is missing
AttributeInTemplate(doc, i, aname) ==
  IF \E k \in 1..Len(doc[i].attrs) : doc[i].attrs[k].name = aname
    THEN doc[i].attrs[CHOOSE k \in 1..Len(doc[i].attrs) : doc[i].attrs[k].name = aname].value
    ELSE Chars("null")

----------------------------------------------------------------------------
(* parseSitemap, from the parsed document to the list of entries.          *)

\* element.querySelector(name)?.textContent, with undefined and the empty
\* string both rendered as the empty string (the two are equally falsy)
QueryText(doc, i, name) ==
  LET found == querySelector(doc, i, {name})
  IN  IF found = 0 THEN <<>> ELSE textContent(doc, found)

\* variant: the pairs joined with ", "
RECURSIVE AlternateUrlsComma(_, _)
AlternateUrlsComma(doc, alternates) ==
  IF alternates = <<>> THEN <<>>
  ELSE LET alt  == Head(alternates)
           pair == AttributeInTemplate(doc, alt, Chars("hreflang")) \o Chars(": ")
                     \o AttributeInTemplate(doc, alt, Chars("href"))
       IN  IF Len(alternates) = 1 THEN pair
           ELSE pair \o Chars(", ") \o AlternateUrlsComma(doc, Tail(alternates))

\* the .map(...).join("; ") over the matched link elements
RECURSIVE AlternateUrls(_, _)
AlternateUrls(doc, alternates) ==
  IF alternates = <<>> THEN <<>>
  ELSE LET alt  == Head(alternates)
           pair == AttributeInTemplate(doc, alt, Chars("hreflang")) \o Chars(": ")
                     \o AttributeInTemplate(doc, alt, Chars("href"))
       IN  IF Len(alternates) = 1 THEN pair
           ELSE pair \o Chars("; ") \o AlternateUrls(doc, Tail(alternates))

\* entry.alternates = alternateUrls, when there are matched link elements
WithAlternates(entry, doc, alternates) ==
  IF Len(alternates) > 0
    THEN [url             |-> entry.url,
          lastModified    |-> entry.lastModified,
          changeFrequency |-> entry.changeFrequency,
          priority        |-> entry.priority,
          alternates      |-> AlternateUrls(doc, alternates)]
    ELSE entry

\* variant: changefreq and priority read into each other's field
UrlEntrySwapped(doc, urlElement) ==
  WithAlternates([url             |-> QueryText(doc, urlElement, Chars("loc")),
                  lastModified    |-> QueryText(doc, urlElement, Chars("lastmod")),
                  changeFrequency |-> QueryText(doc, urlElement, Chars("priority")),
                  priority        |-> QueryText(doc, urlElement, Chars("changefreq"))],
                 doc,
                 querySelectorAll(doc, urlElement, {Chars("xhtml:link"), Chars("link")}))

\* the entry built for one <url> element whose loc is truthy
UrlEntry(doc, urlElement) ==
  WithAlternates([url             |-> QueryText(doc, urlElement, Chars("loc")),
                  lastModified    |-> QueryText(doc, urlElement, Chars("lastmod")),
                  changeFrequency |-> QueryText(doc, urlElement, Chars("changefreq")),
                  priority        |-> QueryText(doc, urlElement, Chars("priority"))],
                 doc,
                 querySelectorAll(doc, urlElement, {Chars("xhtml:link"), Chars("link")}))

\* variant: a <sitemap> element read the way a <url> element is
SitemapEntryFromChildren(doc, sitemapElement) ==
  [url             |-> QueryText(doc, sitemapElement, Chars("loc")),
   lastModified    |-> QueryText(doc, sitemapElement, Chars("lastmod")),
   changeFrequency |-> QueryText(doc, sitemapElement, Chars("changefreq")),
   priority        |-> QueryText(doc, sitemapElement, Chars("priority"))]

\* the entry pushed for one <sitemap> element whose loc is truthy
SitemapEntry(doc, sitemapElement) ==
  [url             |-> QueryText(doc, sitemapElement, Chars("loc")),
   lastModified    |-> QueryText(doc, sitemapElement, Chars("lastmod")),
   changeFrequency |-> Chars("Sitemap Index"),
   priority        |-> <<>>]

\* variant: the if (loc) test left out
LocAlwaysTruthy(doc, element) == TRUE

\* if (loc): the element has a loc descendant whose text is not empty
LocIsTruthy(doc, element) == QueryText(doc, element, Chars("loc")) # <<>>

\* variant: entries put at the front of the array (unshift for push)
RECURSIVE UrlPassUnshift(_, _)
UrlPassUnshift(doc, urlElements) ==
  IF urlElements = <<>> THEN <<>>
  ELSE UrlPassUnshift(doc, Tail(urlElements))
       \o (IF LocIsTruthy(doc, Head(urlElements))
             THEN << UrlEntry(doc, Head(urlElements)) >> ELSE <<>>)

\* urlElements.forEach(...): one entry per element with a truthy loc, in order
RECURSIVE UrlPass(_, _)
UrlPass(doc, urlElements) ==
  IF urlElements = <<>> THEN <<>>
  ELSE (IF LocIsTruthy(doc, Head(urlElements))
          THEN << UrlEntry(doc, Head(urlElements)) >> ELSE <<>>)
       \o UrlPass(doc, Tail(urlElements))

\* sitemapElements.forEach(...)
RECURSIVE SitemapPass(_, _)
SitemapPass(doc, sitemapElements) ==
  IF sitemapElements = <<>> THEN <<>>
  ELSE (IF LocIsTruthy(doc, Head(sitemapElements))
          THEN << SitemapEntry(doc, Head(sitemapElements)) >> ELSE <<>>)
       \o SitemapPass(doc, Tail(sitemapElements))

\* the index pass, which runs only if the first pass left urls empty
IndexPassIfEmpty(doc, urls) ==
  IF Len(urls) = 0
    THEN SitemapPass(doc, querySelectorAll(doc, 0, {Chars("sitemap")}))
    ELSE urls

\* the urls array after both passes
ExtractUrls(doc) ==
  IndexPassIfEmpty(doc, UrlPass(doc, querySelectorAll(doc, 0, {Chars("url")})))

HasParserError(doc) == querySelector(doc, 0, {Chars("parsererror")}) # 0

\* the end of the try block: the entries handed to setSitemapData, or the
\* message of the error thrown
UrlsOrError(urls) ==
  IF Len(urls) = 0
    THEN [ok |-> FALSE, urls |-> <<>>, message |-> "No URLs found in the sitemap"]
    ELSE [ok |-> TRUE, urls |-> urls, message |-> ""]

\* variant: the parsererror check left out
ParseDocumentUnchecked(xmlDoc) == UrlsOrError(ExtractUrls(xmlDoc))

ParseDocument(xmlDoc) ==
  IF HasParserError(xmlDoc)
    THEN [ok |-> FALSE, urls |-> <<>>, message |-> "Invalid XML format"]
    ELSE UrlsOrError(ExtractUrls(xmlDoc))

\* the try block from the cleaned text on
ParseText(text) == ParseDocument(parseFromString(text))

----------------------------------------------------------------------------
(* downloadCSV: the text of the CSV blob.                                  *)

headers ==
  << Chars("URL"), Chars("Last Modified"), Chars("Change Frequency"),
     Chars("Priority"), Chars("Alternates") >>

Quoted(value) == <<"\"">> \o value \o <<"\"">>

\* entry.field || "": a field that was never set reads as undefined
FieldOrEmpty(entry, field) ==
  IF field \in DOMAIN entry THEN entry[field] ELSE <<>>

CsvRow(entry) ==
  JoinWith(<< Quoted(entry.url),
              Quoted(FieldOrEmpty(entry, "lastModified")),
              Quoted(FieldOrEmpty(entry, "changeFrequency")),
              Quoted(FieldOrEmpty(entry, "priority")),
              Quoted(FieldOrEmpty(entry, "alternates")) >>, <<",">>)

\* variant: every line, the last one too, ended by a newline
csvContentNewlineEnded(data) ==
  JoinWith(<< JoinWith(headers, <<",">>) >> \o [i \in 1..Len(data) |-> CsvRow(data[i])],
           <<"\n">>) \o <<"\n">>

csvContent(data) ==
  JoinWith(<< JoinWith(headers, <<",">>) >> \o [i \in 1..Len(data) |-> CsvRow(data[i])],
           <<"\n">>)

\* the table shows at most this many entries
PreviewLimit == 100

\* variant: the table cut one entry late
previewRowsOneMore(data) == SubSeq(data, 1, Min({Len(data), PreviewLimit + 1}))

\* sitemapData.slice(0, 100), the entries the table has a row for
previewRows(data) == SubSeq(data, 1, Min({Len(data), PreviewLimit}))

\* variant: the early return on an empty list left out
CsvBlobUnguarded(data) == << csvContent(data) >>

\* the text handed to new Blob: nothing when downloadCSV returns early
CsvBlob(data) ==
  IF Len(data) = 0 THEN <<>> ELSE << csvContent(data) >>

----------------------------------------------------------------------------
(* Input texts.  A document is written from a short sequence of entries    *)
(* inside a root element; each entry kind carries the XML text of the      *)
(* entry together with what the entry holds, which is what the properties  *)
(* below compare the parse against.                                        *)

MaxEntries == 2
MaxNoise == 3

\* tag: the entry's element; loc: its own loc child (<<>> none, <<t>> text t);
\* locInside: a loc element occurs deeper inside the entry, before any own
\* loc child; links: the entry's alternate-link children
PlainUrl ==
  [xml |-> Chars("<url><loc>https://a.com/</loc><priority>0.5</priority></url>"),
   tag |-> "url", loc |-> << Chars("https://a.com/") >>, locInside |-> FALSE,
   lastmod |-> <<>>, changefreq |-> <<>>, priority |-> Chars("0.5"), links |-> <<>>]

FullUrl ==
  [xml |-> Chars("<url>\n<loc> https://b.com/p </loc>\n<lastmod>2024-01-02</lastmod>\n<changefreq>daily</changefreq>\n<link hreflang=\"de\" href=\"https://b.com/de\"/>\n</url>"),
   tag |-> "url", loc |-> << Chars(" https://b.com/p ") >>, locInside |-> FALSE,
   lastmod |-> Chars("2024-01-02"), changefreq |-> Chars("daily"), priority |-> <<>>,
   links |-> << [lang |-> Chars("de"), href |-> Chars("https://b.com/de")] >>]

LocalizedUrl ==
  [xml |-> Chars("<url><loc>https://x/</loc><xhtml:link rel=\"alternate\" hreflang=\"en\" href=\"https://x/en\"/><xhtml:link rel=\"alternate\" hreflang=\"fr\" href=\"https://x/fr\"/></url>"),
   tag |-> "url", loc |-> << Chars("https://x/") >>, locInside |-> FALSE,
   lastmod |-> <<>>, changefreq |-> <<>>, priority |-> <<>>,
   links |-> << [lang |-> Chars("en"), href |-> Chars("https://x/en")],
                [lang |-> Chars("fr"), href |-> Chars("https://x/fr")] >>]

UrlWithoutLoc ==
  [xml |-> Chars("<url><lastmod>2024-03-04</lastmod></url>"),
   tag |-> "url", loc |-> <<>>, locInside |-> FALSE,
   lastmod |-> Chars("2024-03-04"), changefreq |-> <<>>, priority |-> <<>>, links |-> <<>>]

UrlWithEmptyLoc ==
  [xml |-> Chars("<url><loc></loc><priority>0.9</priority></url>"),
   tag |-> "url", loc |-> << <<>> >>, locInside |-> FALSE,
   lastmod |-> <<>>, changefreq |-> <<>>, priority |-> Chars("0.9"), links |-> <<>>]

UrlWithImageLoc ==
  [xml |-> Chars("<url><image:image><image:loc>https://a.com/i.png</image:loc></image:image></url>"),
   tag |-> "url", loc |-> <<>>, locInside |-> TRUE,
   lastmod |-> <<>>, changefreq |-> <<>>, priority |-> <<>>, links |-> <<>>]

IndexedSitemap ==
  [xml |-> Chars("<sitemap><loc>https://a.com/s1.xml</loc><lastmod>2024-05-06</lastmod></sitemap>"),
   tag |-> "sitemap", loc |-> << Chars("https://a.com/s1.xml") >>, locInside |-> FALSE,
   lastmod |-> Chars("2024-05-06"), changefreq |-> <<>>, priority |-> <<>>, links |-> <<>>]

SitemapWithoutLoc ==
  [xml |-> Chars("<sitemap><lastmod>2024-07-08</lastmod></sitemap>"),
   tag |-> "sitemap", loc |-> <<>>, locInside |-> FALSE,
   lastmod |-> Chars("2024-07-08"), changefreq |-> <<>>, priority |-> <<>>, links |-> <<>>]

EntryKinds ==
  { PlainUrl, FullUrl, LocalizedUrl, UrlWithoutLoc, UrlWithEmptyLoc, UrlWithImageLoc,
    IndexedSitemap, SitemapWithoutLoc }

\* all sequences over S of length at most n
RECURSIVE SeqsUpTo(_, _)
SeqsUpTo(S, n) ==
  IF n = 0 THEN { <<>> }
  ELSE SeqsUpTo(S, n - 1)
         \cup { Append(q, x) : q \in { r \in SeqsUpTo(S, n - 1) : Len(r) = n - 1 }, x \in S }

Documents == SeqsUpTo(EntryKinds, MaxEntries)

RECURSIVE ConcatXml(_)
ConcatXml(entries) ==
  IF entries = <<>> THEN <<>> ELSE Head(entries).xml \o ConcatXml(Tail(entries))

\* the root is sitemapindex when the entries are all sitemap entries, urlset
\* otherwise; both declare the prefixes the entries use
DocumentText(entries) ==
  IF entries # <<>> /\ \A i \in 1..Len(entries) : entries[i].tag = "sitemap"
    THEN Chars("<sitemapindex xmlns:xhtml=\"x\" xmlns:image=\"i\">")
           \o ConcatXml(entries) \o Chars("</sitemapindex>")
    ELSE Chars("<urlset xmlns:xhtml=\"x\" xmlns:image=\"i\">")
           \o ConcatXml(entries) \o Chars("</urlset>")

\* each document paired with its text
DocumentTable == { << d, DocumentText(d) >> : d \in Documents }

\* the input of the end-to-end example
EndToEndText ==
  Chars("<urlset><url><loc>https://a.com/</loc><priority>0.5</priority></url></urlset>")

\* Text in front of the markup, as copied from a browser's XML viewer: a
\* sentence of the viewer's notice, a line of plain text, a blank line
NoisePieces ==
  { Chars("The document tree is shown below.\n"),
    Chars("Sitemap\n"),
    Chars("\n") }

\* the viewer's whole notice, in the letter case of one browser
ViewerNotice ==
  Chars("This XML file does not appear to have any style information associated with it. The document tree is shown below.\n")

NoisePrefixes ==
  { ConcatAll(q) : q \in SeqsUpTo(NoisePieces, MaxNoise) \ { <<>> } }

\* markup under such a prefix: one with a structural marker, one without
NoiseBodies ==
  { EndToEndText,
    Chars("<pages><url><loc>https://a.com/</loc></url></pages>") }

NoisyTexts ==
  { p \o b : p \in NoisePrefixes, b \in NoiseBodies } \cup { ViewerNotice \o EndToEndText }

\* texts that are not documents of the table
OtherTexts ==
  { EndToEndText,
    Chars("<urlset><url><loc>https://a.com/</loc></urlset>"),
    Chars("<urlset><parsererror/></urlset>"),
    Chars("<urlset><?xml-stylesheet href=\"s.xsl\"?><url><loc>https://a.com/</loc></url></urlset>"),
    Chars("<urlset><url><loc>https://a.com/</loc></url></urlset>\nThe document tree is THE DOCUMENT TREE IS SHOWN BELOW.shown below."),
    Chars("no markup here") }

\* url entries whose alternate links lack an attribute, each with the number
\* of its link elements and the pairs they stand for
PartialLinkTable ==
  { [text  |-> Chars("<urlset xmlns:xhtml=\"x\"><url><loc>https://x/</loc><xhtml:link rel=\"alternate\" href=\"https://x/en\"/><xhtml:link rel=\"alternate\" hreflang=\"fr\"/></url></urlset>"),
     links |-> 2,
     pairs |-> Chars("null: https://x/en; fr: null")],
    [text  |-> Chars("<urlset><url><loc>https://x/</loc><link/></url></urlset>"),
     links |-> 1,
     pairs |-> Chars("null: null")],
    [text  |-> Chars("<urlset><url><loc>https://x/</loc><link hreflang=\"de\" href=\"https://x/de\"/><link href=\"https://x/it\"/><link hreflang=\"es\" href=\"https://x/es\"/></url></urlset>"),
     links |-> 3,
     pairs |-> Chars("de: https://x/de; null: https://x/it; es: https://x/es")] }

\* the texts one conversion is run on
ConvertTexts ==
  { p[2] : p \in DocumentTable } \cup NoisyTexts \cup OtherTexts
    \cup { p.text : p \in PartialLinkTable }

\* the texts a user selects as a file or pastes in the interactive model
UiTexts ==
  { EndToEndText,
    DocumentText(<< IndexedSitemap >>),
    DocumentText(<< UrlWithEmptyLoc >>),
    Chars("<urlset><url><loc>https://a.com/</loc></urlset>") }

----------------------------------------------------------------------------
(* The component's state and its handlers.                                 *)

VARIABLES
  file,          \* useState<File | null>: NoFile, or << text >> for a File with that text
  sitemapData,   \* useState<SitemapEntry[]>
  isProcessing,  \* useState(false)
  error,         \* useState<string>("")
  xmlContent,    \* useState<string>("")
  activeTab,     \* useState<string>("upload")
  calls,         \* parseSitemap invocations suspended at an await, each with
                 \* the state values its closure captured
  lastParse,     \* locals of the parseSitemap invocation that finished last
  lastDownload   \* the last downloadCSV call: the list it saw, the blob it made

\* the FaviconManager singleton and the callbacks it has scheduled
VARIABLES
  currentFavicon,       \* href of the link element this.currentFavicon
  animationFrame,       \* this.animationFrame: 0 for null, else a request id
  faviconIsProcessing,  \* this.isProcessing
  imagesLoading,        \* images created by animateProcessing, onload not yet fired
  frameRequests,        \* pending requestAnimationFrame callbacks, each with
                        \* its id and the rotation its closure holds
  nextFrameId,          \* the id the next requestAnimationFrame returns
  lastCall              \* the public method of the manager called last

faviconVars ==
  << currentFavicon, animationFrame, faviconIsProcessing, imagesLoading,
     frameRequests, nextFrameId, lastCall >>

vars ==
  << file, sitemapData, isProcessing, error, xmlContent, activeTab, calls,
     lastParse, lastDownload, faviconVars >>

\* an icon: the file or data URL, and for a frame drawn on the canvas the
\* rotation of its spinner in steps of 0.2
originalFavicon == [src |-> "/favicon-32x32.png", rotation |-> 0]

processingFavicon == [src |-> "/favicon-processing.png", rotation |-> 0]

toDataURL(rotation) == [src |-> "data:image/png", rotation |-> rotation]

\* the manager once the component is mounted: the effect has run with
\* isProcessing false and called stopSimpleProcessing
FaviconMounted ==
  /\ currentFavicon = originalFavicon
  /\ animationFrame = 0
  /\ faviconIsProcessing = FALSE
  /\ imagesLoading = 0
  /\ frameRequests = {}
  /\ nextFrameId = 1
  /\ lastCall = "stopSimpleProcessing"

\* The effect on the favicon after a render.  useFavicon returns new
\* functions at every render, so the effect runs again after each: its
\* cleanup calls stopSimpleProcessing, then its body calls
\* startSimpleProcessing if isProcessing and stopSimpleProcessing if not.
useEffectFavicon ==
  /\ faviconIsProcessing' = isProcessing'
  /\ currentFavicon' = IF isProcessing' THEN processingFavicon ELSE originalFavicon
  /\ lastCall' = IF isProcessing' THEN "startSimpleProcessing" ELSE "stopSimpleProcessing"
  /\ UNCHANGED << animationFrame, imagesLoading, frameRequests, nextFrameId >>

NoFile == <<>>

Init ==
  /\ file = NoFile
  /\ sitemapData = <<>>
  /\ isProcessing = FALSE
  /\ error = ""
  /\ xmlContent = <<>>
  /\ activeTab = "upload"
  /\ calls = <<>>
  /\ lastParse = <<>>
  /\ lastDownload = <<>>
  /\ FaviconMounted

\* onChange of the file input (rendered on the upload tab) with a file chosen
handleFileChange(selectedFile) ==
  /\ activeTab = "upload"
  /\ file' = << selectedFile >>
  /\ error' = ""
  /\ sitemapData' = <<>>
  /\ UNCHANGED << isProcessing, xmlContent, activeTab, calls, lastParse, lastDownload >>
  /\ useEffectFavicon

\* onChange of the textarea (rendered on the paste tab)
setXmlContent(value) ==
  /\ activeTab = "paste"
  /\ xmlContent' = value
  /\ UNCHANGED << file, sitemapData, isProcessing, error, activeTab, calls,
                  lastParse, lastDownload >>
  /\ useEffectFavicon

\* variant: a tab change that keeps the input of the tab left behind
handleTabChangeKeepsInput(value) ==
  /\ value # activeTab
  /\ activeTab' = value
  /\ error' = ""
  /\ sitemapData' = <<>>
  /\ UNCHANGED << file, xmlContent, isProcessing, calls, lastParse, lastDownload >>
  /\ useEffectFavicon

\* onValueChange of the tabs, which fires when the value changes
handleTabChange(value) ==
  /\ value # activeTab
  /\ activeTab' = value
  /\ error' = ""
  /\ sitemapData' = <<>>
  /\ IF value = "upload"
       THEN xmlContent' = <<>> /\ file' = file
       ELSE file' = NoFile /\ xmlContent' = xmlContent
  /\ UNCHANGED << isProcessing, calls, lastParse, lastDownload >>
  /\ useEffectFavicon

\* what an invocation that returned at once leaves behind: no locals, and
\* nothing thrown
ReturnedAtOnce ==
  [content |-> <<>>, text |-> <<>>, ok |-> FALSE, urls |-> <<>>, message |-> ""]

\* variant: Convert not disabled while a parse is running
parseSitemapNotDisabled ==
  IF file = NoFile /\ Trim(xmlContent) = <<>>
    THEN /\ lastParse' = << ReturnedAtOnce >>
         /\ UNCHANGED << file, sitemapData, isProcessing, error, xmlContent,
                         activeTab, calls, lastDownload, faviconVars >>
    ELSE /\ isProcessing' = TRUE
         /\ error' = ""
         /\ calls' = Append(calls, [pc |-> "delay", file |-> file,
                                    xmlContent |-> xmlContent, activeTab |-> activeTab])
         /\ UNCHANGED << file, sitemapData, xmlContent, activeTab, lastParse,
                         lastDownload >>
         /\ useEffectFavicon

\* variant: setError("") at the start left out
parseSitemapKeepsError ==
  /\ ~isProcessing
  /\ IF file = NoFile /\ Trim(xmlContent) = <<>>
       THEN /\ lastParse' = << ReturnedAtOnce >>
            /\ UNCHANGED << file, sitemapData, isProcessing, error, xmlContent,
                            activeTab, calls, lastDownload, faviconVars >>
       ELSE /\ isProcessing' = TRUE
            /\ calls' = Append(calls, [pc |-> "delay", file |-> file,
                                       xmlContent |-> xmlContent, activeTab |-> activeTab])
            /\ UNCHANGED << file, sitemapData, error, xmlContent, activeTab,
                            lastParse, lastDownload >>
            /\ useEffectFavicon

\* parseSitemap up to its first await.  Convert is disabled while
\* isProcessing; the function returns at once when there is no input.
parseSitemap ==
  /\ ~isProcessing
  /\ IF file = NoFile /\ Trim(xmlContent) = <<>>
       THEN /\ lastParse' = << ReturnedAtOnce >>
            /\ UNCHANGED << file, sitemapData, isProcessing, error, xmlContent,
                            activeTab, calls, lastDownload, faviconVars >>
       ELSE /\ isProcessing' = TRUE
            /\ error' = ""
            /\ calls' = Append(calls, [pc |-> "delay", file |-> file,
                                       xmlContent |-> xmlContent, activeTab |-> activeTab])
            /\ UNCHANGED << file, sitemapData, xmlContent, activeTab, lastParse,
                            lastDownload >>
            /\ useEffectFavicon

RemoveAt(q, k) == SubSeq(q, 1, k - 1) \o SubSeq(q, k + 1, Len(q))

ParseLocals(content, text, result) ==
  [content |-> content, text |-> text, ok |-> result.ok, urls |-> result.urls,
   message |-> result.message]

ParseCleaned(content, text) == ParseLocals(content, text, ParseText(text))

\* the locals of the try block once content is known: text, and what the
\* rest of the block makes of it
ConvertContent(content) == ParseCleaned(content, cleanXmlContent(content))

\* ConvertContent on the texts of the interactive model, tabulated once
UiConversions == [t \in UiTexts |-> ConvertContent(t)]

Converted(content) ==
  IF content \in UiTexts THEN UiConversions[content] ELSE ConvertContent(content)

\* variant: the finally block left out
FinishWithoutFinally(k, locals) ==
  /\ sitemapData' = IF locals.ok THEN locals.urls ELSE sitemapData
  /\ error' = IF locals.ok THEN error ELSE locals.message
  /\ calls' = RemoveAt(calls, k)
  /\ lastParse' = << locals >>
  /\ UNCHANGED << file, isProcessing, xmlContent, activeTab, lastDownload >>
  /\ useEffectFavicon

\* From cleanXmlContent(content) to the end of the finally block, for the
\* suspended call k.
Finish(k, locals) ==
  /\ sitemapData' = IF locals.ok THEN locals.urls ELSE sitemapData
  /\ error' = IF locals.ok THEN error ELSE locals.message
  /\ isProcessing' = FALSE
  /\ calls' = RemoveAt(calls, k)
  /\ lastParse' = << locals >>
  /\ UNCHANGED << file, xmlContent, activeTab, lastDownload >>
  /\ useEffectFavicon

FinishParse(k, content) == Finish(k, Converted(content))

\* the throw of "No content provided", caught and shown
FailNoContent(k) ==
  /\ error' = "No content provided"
  /\ isProcessing' = FALSE
  /\ calls' = RemoveAt(calls, k)
  /\ lastParse' = << [content |-> <<>>, text |-> <<>>, ok |-> FALSE,
                      urls |-> <<>>, message |-> "No content provided"] >>
  /\ UNCHANGED << file, sitemapData, xmlContent, activeTab, lastDownload >>
  /\ useEffectFavicon

\* the 500 ms timer of call k fires: the upload branch awaits file.text(), the
\* paste branch runs to the end
afterDelay(k) ==
  /\ calls[k].pc = "delay"
  /\ IF calls[k].activeTab = "upload" /\ calls[k].file # NoFile
       THEN /\ calls' = [calls EXCEPT ![k].pc = "read"]
            /\ UNCHANGED << file, sitemapData, isProcessing, error, xmlContent,
                            activeTab, lastParse, lastDownload, faviconVars >>
     ELSE IF calls[k].activeTab = "paste" /\ Trim(calls[k].xmlContent) # <<>>
       THEN FinishParse(k, Trim(calls[k].xmlContent))
     ELSE FailNoContent(k)

\* file.text() of call k resolves
afterRead(k) ==
  /\ calls[k].pc = "read"
  /\ FinishParse(k, calls[k].file[1])

\* downloadCSV; the page shows its button only while the list is not empty,
\* and the function itself returns at once on an empty list
downloadCSV ==
  /\ lastDownload' =
       << [data |-> sitemapData, blob |-> CsvBlob(sitemapData)] >>
  /\ UNCHANGED << file, sitemapData, isProcessing, error, xmlContent, activeTab,
                  calls, lastParse >>
  /\ UNCHANGED faviconVars

Next ==
  \/ \E f \in UiTexts : handleFileChange(f)
  \/ \E t \in UiTexts \cup { <<>> } : setXmlContent(t)
  \/ \E v \in {"upload", "paste"} : handleTabChange(v)
  \/ parseSitemap
  \/ \E k \in 1..Len(calls) : afterDelay(k)
  \/ \E k \in 1..Len(calls) : afterRead(k)
  \/ downloadCSV

Spec == Init /\ [][Next]_vars

\* The same with the scheduling the runtime guarantees: the 500 ms timer of
\* a suspended call fires, and file.text() resolves.  Nothing obliges the
\* user to act.
SpecLive ==
  /\ Spec
  /\ WF_vars(\E k \in 1..Len(calls) : afterDelay(k))
  /\ WF_vars(\E k \in 1..Len(calls) : afterRead(k))

\* One conversion of a pasted text: the text is drawn from ConvertTexts;
\* Convert is clicked, the timer fires, and Download CSV is clicked on the
\* result.
InitConvert ==
  /\ file = NoFile
  /\ sitemapData = <<>>
  /\ isProcessing = FALSE
  /\ error = ""
  /\ xmlContent \in ConvertTexts
  /\ activeTab = "paste"
  /\ calls = <<>>
  /\ lastParse = <<>>
  /\ lastDownload = <<>>
  /\ FaviconMounted

NextConvert ==
  \/ parseSitemap
  \/ \E k \in 1..Len(calls) : afterDelay(k)
  \/ lastParse # <<>> /\ downloadCSV

SpecConvert == InitConvert /\ [][NextConvert]_vars

\* A held list of up to MaxRows entries, as a parse of that many url
\* elements leaves it, shown in the table and downloaded.
MaxRows == 101

Digits == Chars("0123456789")

RECURSIVE Decimal(_)
Decimal(n) ==
  IF n < 10 THEN << Digits[n + 1] >> ELSE Decimal(n \div 10) \o << Digits[(n % 10) + 1] >>

RowEntry(i) ==
  [url             |-> Chars("https://a.com/") \o Decimal(i),
   lastModified    |-> <<>>,
   changeFrequency |-> <<>>,
   priority        |-> IF i % 2 = 0 THEN Chars("0.5") ELSE <<>>]

RowList(n) == SubSeq([i \in 1..MaxRows |-> RowEntry(i)], 1, n)

InitTable ==
  /\ file = NoFile
  /\ sitemapData \in { RowList(n) : n \in 0..MaxRows }
  /\ isProcessing = FALSE
  /\ error = ""
  /\ xmlContent = <<>>
  /\ activeTab = "paste"
  /\ calls = <<>>
  /\ lastParse = <<>>
  /\ lastDownload = <<>>
  /\ FaviconMounted

NextTable == downloadCSV

SpecTable == InitTable /\ [][NextTable]_vars

----------------------------------------------------------------------------
(* The FaviconManager singleton, under any sequence of calls of its four   *)
(* public methods, with the image-load and animation-frame callbacks of    *)
(* animateProcessing firing in between.                                    *)

MaxImages == 2
MaxFrames == 3

\* the href of the first link[rel="icon"] of the page, or of the link the
\* constructor creates
InitialIcons ==
  { [src |-> "/favicon-16x16.png", rotation |-> 0],
    [src |-> "/favicon.png", rotation |-> 0],
    originalFavicon }

componentVars ==
  << file, sitemapData, isProcessing, error, xmlContent, activeTab, calls,
     lastParse, lastDownload >>

\* animateProcessing: returns at once unless processing and a 2d context is
\* to be had; otherwise creates the image and leaves its load pending
animateProcessing(ctx) ==
  IF faviconIsProcessing' /\ ctx
    THEN imagesLoading < MaxImages /\ imagesLoading' = imagesLoading + 1
    ELSE imagesLoading' = imagesLoading

startProcessing(ctx) ==
  /\ lastCall' = "startProcessing"
  /\ IF faviconIsProcessing
       THEN UNCHANGED << faviconIsProcessing, imagesLoading >>
       ELSE faviconIsProcessing' = TRUE /\ animateProcessing(ctx)
  /\ UNCHANGED << currentFavicon, animationFrame, frameRequests, nextFrameId,
                  componentVars >>

\* variant: the pending frame cancelled, the icon not put back
stopProcessingKeepsIcon ==
  /\ lastCall' = "stopProcessing"
  /\ faviconIsProcessing' = FALSE
  /\ IF animationFrame # 0
       THEN /\ frameRequests' = { r \in frameRequests : r.id # animationFrame }
            /\ animationFrame' = 0
       ELSE UNCHANGED << frameRequests, animationFrame >>
  /\ UNCHANGED << currentFavicon, imagesLoading, nextFrameId, componentVars >>

stopProcessing ==
  /\ lastCall' = "stopProcessing"
  /\ faviconIsProcessing' = FALSE
  /\ IF animationFrame # 0
       THEN /\ frameRequests' = { r \in frameRequests : r.id # animationFrame }
            /\ animationFrame' = 0
       ELSE UNCHANGED << frameRequests, animationFrame >>
  /\ currentFavicon' = originalFavicon
  /\ UNCHANGED << imagesLoading, nextFrameId, componentVars >>

\* the function animate of an onload closure whose rotation is this; the
\* callback that runs it leaves these loads and frame requests pending
animate(rotation, loads, requests) ==
  /\ imagesLoading' = loads
  /\ IF ~faviconIsProcessing
       THEN /\ frameRequests' = requests
            /\ UNCHANGED << currentFavicon, animationFrame, nextFrameId >>
       ELSE /\ nextFrameId <= MaxFrames
            /\ currentFavicon' = toDataURL(rotation)
            /\ animationFrame' = nextFrameId
            /\ frameRequests' = requests \cup { [id |-> nextFrameId, rotation |-> rotation + 1] }
            /\ nextFrameId' = nextFrameId + 1
  /\ UNCHANGED << faviconIsProcessing, lastCall, componentVars >>

\* img.onload of one of the images fires
imageLoaded ==
  /\ imagesLoading > 0
  /\ animate(0, imagesLoading - 1, frameRequests)

\* the browser runs a pending animation-frame callback
frameFired(r) ==
  /\ r \in frameRequests
  /\ animate(r.rotation, imagesLoading, frameRequests \ { r })

startSimpleProcessing ==
  /\ lastCall' = "startSimpleProcessing"
  /\ IF faviconIsProcessing
       THEN UNCHANGED << faviconIsProcessing, currentFavicon >>
       ELSE faviconIsProcessing' = TRUE /\ currentFavicon' = processingFavicon
  /\ UNCHANGED << animationFrame, imagesLoading, frameRequests, nextFrameId,
                  componentVars >>

stopSimpleProcessing ==
  /\ lastCall' = "stopSimpleProcessing"
  /\ faviconIsProcessing' = FALSE
  /\ currentFavicon' = originalFavicon
  /\ UNCHANGED << animationFrame, imagesLoading, frameRequests, nextFrameId,
                  componentVars >>

\* the manager as its constructor leaves it, no method called yet
InitFavicon ==
  /\ file = NoFile
  /\ sitemapData = <<>>
  /\ isProcessing = FALSE
  /\ error = ""
  /\ xmlContent = <<>>
  /\ activeTab = "upload"
  /\ calls = <<>>
  /\ lastParse = <<>>
  /\ lastDownload = <<>>
  /\ currentFavicon \in InitialIcons
  /\ animationFrame = 0
  /\ faviconIsProcessing = FALSE
  /\ imagesLoading = 0
  /\ frameRequests = {}
  /\ nextFrameId = 1
  /\ lastCall = "none"

NextFavicon ==
  \/ \E ctx \in BOOLEAN : startProcessing(ctx)
  \/ stopProcessing
  \/ startSimpleProcessing
  \/ stopSimpleProcessing
  \/ imageLoaded
  \/ \E r \in frameRequests : frameFired(r)

SpecFavicon == InitFavicon /\ [][NextFavicon]_vars

----------------------------------------------------------------------------
(* Properties.                                                             *)

Parsed == lastParse # <<>>

\* the last finished parse was given exactly this text
ParsedText(t) == Parsed /\ lastParse[1].content = t

HasLoc(e) == e.loc # <<>>

HasLocText(e) == e.loc # <<>> /\ e.loc[1] # <<>>

\* a sitemap of url entries, each with a loc child
IsUrlSitemap(d) ==
  /\ Len(d) >= 1
  /\ \A i \in 1..Len(d) : d[i].tag = "url" /\ HasLoc(d[i])

\* the same, each loc with text in it and no loc element before it
IsUrlSitemapWithLocText(d) ==
  /\ Len(d) >= 1
  /\ \A i \in 1..Len(d) : d[i].tag = "url" /\ HasLocText(d[i]) /\ ~d[i].locInside

UrlsMatchLocs(d) ==
  /\ lastParse[1].ok
  /\ sitemapData = lastParse[1].urls
  /\ Len(sitemapData) = Len(d)
  /\ \A i \in 1..Len(d) : sitemapData[i].url = d[i].loc[1]

\* C1 as stated: for every sitemap of N >= 1 url entries each containing a
\* loc, whatever the loc text, the parse returns N records in document order
\* and the i-th url is the i-th loc text.
C1_AnyLocText ==
  \A p \in DocumentTable :
    (ParsedText(p[2]) /\ IsUrlSitemap(p[1])) => UrlsMatchLocs(p[1])

\* C1 amended: for every sitemap of N >= 1 url entries each containing a loc
\* child with non-empty text and no loc element before it, the parse returns
\* N records in document order and the i-th url is the i-th loc text verbatim.
C1_NonEmptyLocText ==
  \A p \in DocumentTable :
    (ParsedText(p[2]) /\ IsUrlSitemapWithLocText(p[1])) => UrlsMatchLocs(p[1])

C1_Witness ==
  /\ ParsedText(DocumentText(<< LocalizedUrl, FullUrl >>))
  /\ Len(sitemapData) = 2
  /\ sitemapData[2].url = Chars(" https://b.com/p ")

\* C2: every record of the held list has a non-empty url, in every state the
\* handlers can reach.
C2_UrlNonEmpty ==
  \A i \in 1..Len(sitemapData) : sitemapData[i].url # <<>>

\* the held list comes from the index pass and the list downloaded before it
\* came from the url pass
C2_Witness ==
  /\ sitemapData # <<>>
  /\ sitemapData[1].changeFrequency = Chars("Sitemap Index")
  /\ lastDownload # <<>>
  /\ lastDownload[1].data # <<>>
  /\ lastDownload[1].data[1].changeFrequency = <<>>

WellFormed(text) == parseFromString(text) # ParserErrorDocument

\* C3 as stated: a parse that stores a list stores at least one record; text
\* that is well-formed XML but yields no record fails with "No URLs found in
\* the sitemap"; text that is not well-formed fails with "Invalid XML format".
C3_ErrorKinds ==
  Parsed =>
    /\ lastParse[1].ok => (Len(lastParse[1].urls) >= 1 /\ sitemapData = lastParse[1].urls)
    /\ (~lastParse[1].ok /\ WellFormed(lastParse[1].text))
         => lastParse[1].message = "No URLs found in the sitemap"
    /\ ~WellFormed(lastParse[1].text)
         => (~lastParse[1].ok /\ lastParse[1].message = "Invalid XML format")

\* a sitemap index: sitemap elements only
IsSitemapIndex(d) ==
  /\ Len(d) >= 1
  /\ \A i \in 1..Len(d) : d[i].tag = "sitemap"

ExpectedIndexRecord(e) ==
  [url             |-> e.loc[1],
   lastModified    |-> e.lastmod,
   changeFrequency |-> Chars("Sitemap Index"),
   priority        |-> <<>>]

ExpectedIndexRecords(d) ==
  LET kept == SelectSeq(d, HasLocText)
  IN  [i \in 1..Len(kept) |-> ExpectedIndexRecord(kept[i])]

\* C4 as stated: a sitemap index yields exactly one record per sitemap
\* element, each with changeFrequency "Sitemap Index" and an empty priority.
C4_OnePerSitemapElement ==
  \A p \in DocumentTable :
    (ParsedText(p[2]) /\ IsSitemapIndex(p[1])) =>
      /\ lastParse[1].ok
      /\ Len(lastParse[1].urls) = Len(p[1])
      /\ \A i \in 1..Len(lastParse[1].urls) :
           /\ lastParse[1].urls[i].changeFrequency = Chars("Sitemap Index")
           /\ lastParse[1].urls[i].priority = <<>>

\* C4 amended: a sitemap index yields exactly one record per sitemap element
\* whose loc has text, in document order, with url the loc text, lastModified
\* the lastmod text, changeFrequency "Sitemap Index" and an empty priority;
\* if no sitemap element has such a loc the parse fails with "No URLs found
\* in the sitemap".
C4_OnePerSitemapWithLoc ==
  \A p \in DocumentTable :
    (ParsedText(p[2]) /\ IsSitemapIndex(p[1])) =>
      IF ExpectedIndexRecords(p[1]) = <<>>
        THEN ~lastParse[1].ok /\ lastParse[1].message = "No URLs found in the sitemap"
        ELSE lastParse[1].ok /\ sitemapData = ExpectedIndexRecords(p[1])

C4_Witness ==
  /\ ParsedText(DocumentText(<< SitemapWithoutLoc, IndexedSitemap >>))
  /\ Len(sitemapData) = 1
  /\ sitemapData[1].changeFrequency = Chars("Sitemap Index")

\* url entries only, none with a loc child
IsUrlSitemapWithoutLoc(d) ==
  /\ Len(d) >= 1
  /\ \A i \in 1..Len(d) : d[i].tag = "url" /\ ~HasLoc(d[i])

\* C5 as stated: a url entry that has no loc child contributes zero records,
\* so a sitemap of such entries yields no record at all.
C5_NoLocChildNoRecord ==
  \A p \in DocumentTable :
    (ParsedText(p[2]) /\ IsUrlSitemapWithoutLoc(p[1])) => lastParse[1].urls = <<>>

ExpectedPair(link) == link.lang \o Chars(": ") \o link.href

RECURSIVE ExpectedPairs(_, _)
ExpectedPairs(links, n) ==
  IF n = 1 THEN ExpectedPair(links[1])
  ELSE ExpectedPairs(links, n - 1) \o Chars("; ") \o ExpectedPair(links[n])

\* C6: in a sitemap whose url entries all yield a record, the record of an
\* entry with one or more link children has alternates equal to the
\* "<hreflang>: <href>" pairs in document order joined by "; ", and the
\* record of an entry with no link child has no alternates.
C6_Alternates ==
  \A p \in DocumentTable :
    (ParsedText(p[2]) /\ IsUrlSitemapWithLocText(p[1])) =>
      /\ Len(lastParse[1].urls) = Len(p[1])
      /\ \A i \in 1..Len(p[1]) :
           IF p[1][i].links = <<>>
             THEN "alternates" \notin DOMAIN lastParse[1].urls[i]
             ELSE /\ "alternates" \in DOMAIN lastParse[1].urls[i]
                  /\ lastParse[1].urls[i].alternates =
                       ExpectedPairs(p[1][i].links, Len(p[1][i].links))

C6_Witness ==
  /\ ParsedText(DocumentText(<< LocalizedUrl, PlainUrl >>))
  /\ sitemapData[1].alternates = Chars("en: https://x/en; fr: https://x/fr")
  /\ "alternates" \notin DOMAIN sitemapData[2]

\* C7 as stated: sanitizing text that has been sanitized gives the same text.
C7_Idempotent ==
  Parsed => cleanXmlContent(lastParse[1].text) = lastParse[1].text

Downloaded == lastDownload # <<>>

ExpectedField(record, field) ==
  IF field \in DOMAIN record THEN record[field] ELSE <<>>

ExpectedRow(record) ==
  <<"\"">> \o record.url
    \o Chars("\",\"") \o ExpectedField(record, "lastModified")
    \o Chars("\",\"") \o ExpectedField(record, "changeFrequency")
    \o Chars("\",\"") \o ExpectedField(record, "priority")
    \o Chars("\",\"") \o ExpectedField(record, "alternates")
    \o <<"\"">>

RECURSIVE ExpectedRows(_)
ExpectedRows(data) ==
  IF data = <<>> THEN <<>>
  ELSE <<"\n">> \o ExpectedRow(Head(data)) \o ExpectedRows(Tail(data))

ExpectedHeader == Chars("URL,Last Modified,Change Frequency,Priority,Alternates")

NewlinesIn(text) == Cardinality({ i \in 1..Len(text) : text[i] = "\n" })

C9_EmptyListHeaderOnly ==
  (Downloaded /\ lastDownload[1].data = <<>>) => lastDownload[1].blob = << ExpectedHeader >>

\* C9 amended: downloadCSV given the empty record list returns before it
\* builds any CSV text, so no header-only CSV is ever produced; every CSV it
\* produces starts with the header line and a newline and has at least one
\* row.
C9_EmptyListNoCsv ==
  Downloaded =>
    IF lastDownload[1].data = <<>>
      THEN lastDownload[1].blob = <<>>
      ELSE /\ Len(lastDownload[1].blob) = 1
           /\ lastDownload[1].blob[1] # ExpectedHeader
           /\ StartsWith(lastDownload[1].blob[1], ExpectedHeader \o <<"\n">>)

C9_Witness ==
  /\ Downloaded
  /\ lastDownload[1].data = <<>>
  /\ sitemapData = <<>>
  /\ error = "No URLs found in the sitemap"

\* C10: parsing
\* <urlset><url><loc>https://a.com/</loc><priority>0.5</priority></url></urlset>
\* gives one record with url "https://a.com/", priority "0.5" and empty
\* lastModified and changeFrequency, and the second line of its CSV is
\* "https://a.com/","","","0.5","".
C10_EndToEnd ==
  ParsedText(EndToEndText) =>
    /\ lastParse[1].ok
    /\ sitemapData = << [url             |-> Chars("https://a.com/"),
                         lastModified    |-> <<>>,
                         changeFrequency |-> <<>>,
                         priority        |-> Chars("0.5")] >>
    /\ Downloaded =>
         /\ Len(lastDownload[1].blob) = 1
         /\ SplitLines(lastDownload[1].blob[1])[2]
              = Chars("\"https://a.com/\",\"\",\"\",\"0.5\",\"\"")

C10_Witness ==
  /\ ParsedText(EndToEndText)
  /\ Downloaded
  /\ lastDownload[1].blob # <<>>
  /\ Len(sitemapData) = 1

\* C11 as stated: once a parse has completed, succeeded or failed, the held
\* list holds no record of an earlier parse: it is the list of the parse
\* that completed last, or empty.
C11_OnlyLatestParse ==
  (Parsed /\ lastParse[1] # ReturnedAtOnce) =>
    \/ sitemapData = <<>>
    \/ lastParse[1].ok /\ sitemapData = lastParse[1].urls

\* C12 as stated: once the tab has been switched, the held list and the
\* error stay empty until a parse is started after the switch; in particular
\* while a parse started on the other tab is still running, no step leaves
\* a record or an error behind.
C12_EmptyAfterSwitch ==
  [][ (calls # <<>> /\ calls[1].activeTab # activeTab)
        => (sitemapData' = <<>> /\ error' = "") ]_vars

\* C13: at no time are two parse operations in flight, and one is in flight
\* exactly while isProcessing is true.
C13_OneInFlight ==
  /\ Len(calls) <= 1
  /\ isProcessing <=> calls # <<>>

\* a parse is in flight on each tab in turn: here one reading its file
\* after the one before it completed
C13_Witness ==
  /\ Len(calls) = 1
  /\ calls[1].pc = "read"
  /\ isProcessing
  /\ Parsed
  /\ lastParse[1].ok

\* C14 as stated: a parse invoked with neither a file nor non-blank pasted
\* text ends with the message "No content provided" displayed.
C14_EmptyInputShown ==
  (Parsed /\ lastParse[1].content = <<>>) =>
    (lastParse[1].message = "No content provided" /\ error = "No content provided")

\* C15: when the sanitized text is not well-formed XML the parse fails with
\* "Invalid XML format" and no record is extracted from the text, whatever
\* url or sitemap entries it contains.
C15_InvalidXml ==
  (Parsed /\ lastParse[1] # ReturnedAtOnce /\ ~WellFormed(lastParse[1].text)) =>
    /\ ~lastParse[1].ok
    /\ lastParse[1].message = "Invalid XML format"
    /\ lastParse[1].urls = <<>>
    /\ sitemapData = <<>>

\* the text holds a url entry with a loc, and its urlset is never closed
C15_Witness ==
  /\ ParsedText(Chars("<urlset><url><loc>https://a.com/</loc></urlset>"))
  /\ error = "Invalid XML format"
  /\ sitemapData = <<>>

ValidSitemaps == { EndToEndText, DocumentText(<< IndexedSitemap >>) }

\* the content a suspended call goes on to parse
CallContent(call) ==
  IF call.activeTab = "upload" /\ call.file # NoFile THEN call.file[1]
  ELSE Trim(call.xmlContent)

FailedBefore == Parsed /\ ~lastParse[1].ok

RetryingValid ==
  /\ FailedBefore
  /\ calls # <<>>
  /\ CallContent(calls[1]) \in ValidSitemaps

\* C16: no error is fatal.  Once a failed parse has completed Convert is
\* enabled again, and a parse of a valid sitemap started after a failed
\* parse leads to a non-empty held list with the error message cleared.
C16_RetrySucceeds ==
  /\ [](FailedBefore /\ calls = <<>> => ~isProcessing)
  /\ RetryingValid ~> (sitemapData # <<>> /\ error = "")

\* a parse of a valid sitemap is running after a parse of malformed text
\* failed; starting it cleared the message
C16_Witness ==
  /\ RetryingValid
  /\ lastParse[1].message = "Invalid XML format"
  /\ error = ""

\* positions of the newlines of text, ascending
NewlinesOf(text) == SelectSeq(Positions(text), LAMBDA p : text[p] = "\n")

\* the i-th line after the header line of a CSV text with these newlines
CsvLine(text, newlines, i) ==
  SubSeq(text, newlines[i] + 1,
         IF i < Len(newlines) THEN newlines[i + 1] - 1 ELSE Len(text))

AllRowsIn(text, newlines, data) ==
  /\ Len(newlines) = Len(data)
  /\ \A i \in 1..Len(data) : CsvLine(text, newlines, i) = ExpectedRow(data[i])

\* C17: for a held list of N records the table has a row for exactly the
\* first min(N, 100) records, in order, and the CSV downloaded from the list
\* has a row for each of the N records.
C17_PreviewAndCsv ==
  /\ Len(previewRows(sitemapData)) =
       (IF Len(sitemapData) <= 100 THEN Len(sitemapData) ELSE 100)
  /\ \A i \in 1..Len(previewRows(sitemapData)) : previewRows(sitemapData)[i] = sitemapData[i]
  /\ (Downloaded /\ sitemapData # <<>>) =>
       /\ lastDownload[1].data = sitemapData
       /\ Len(lastDownload[1].blob) = 1
       /\ AllRowsIn(lastDownload[1].blob[1], NewlinesOf(lastDownload[1].blob[1]), sitemapData)

\* more than 100 records held: the table stops at the hundredth, the CSV
\* goes on
C17_Witness ==
  /\ Len(sitemapData) > 100
  /\ Len(previewRows(sitemapData)) = 100
  /\ Downloaded
  /\ lastDownload[1].blob # <<>>

\* the last parse got as far as sanitizing its content
Sanitized == Parsed /\ lastParse[1].content # <<>>

Markers ==
  { Chars("<?xml"), Chars("<urlset"), Chars("<sitemapindex"), Chars("<rss"), Chars("<feed") }

\* the positions of s at which one of the markers begins, in any letter case
MarkerPositions(s) ==
  { i \in 1..Len(s) : \E m \in Markers : MatchAtCI(s, i, m) }

\* s from the marker with the smallest position on
FromEarliestMarker(s) ==
  IF MarkerPositions(s) = {} THEN s ELSE SubSeq(s, Min(MarkerPositions(s)), Len(s))

LineStarts(s) == {1} \cup { p + 1 : p \in { q \in 1..Len(s) : s[q] = "\n" } }

LineEnd(s, p) ==
  IF NextChar(s, p, "\n") = 0 THEN Len(s) ELSE NextChar(s, p, "\n") - 1

InkOf(s, p) == { q \in p..LineEnd(s, p) : ~IsWhite(s[q]) }

\* the line that starts at p is blank or begins with "<" once trimmed
BlankOrMarkup(s, p) == InkOf(s, p) = {} \/ s[Min(InkOf(s, p))] = "<"

StopLines(s) == { p \in LineStarts(s) : BlankOrMarkup(s, p) }

\* s without the lines before its first blank-or-markup line
FromFirstStopLine(s) ==
  IF StopLines(s) = {} THEN s ELSE SubSeq(s, Min(StopLines(s)), Len(s))

\* C18 as stated: the marker step cuts at the smallest position at which any
\* of the five markers occurs, so the sanitized text is what the line step
\* and the final trim leave of the text from that position on.
C18_EarliestMarker ==
  Sanitized =>
    lastParse[1].text =
      Trim(FromFirstStopLine(FromEarliestMarker(StripMessages(lastParse[1].content))))

NoMarker(s) == MarkerPositions(s) = {}

IsSitemapEntry(e) == e.tag = "sitemap"

IndexEntries(d) == SelectSeq(d, IsSitemapEntry)

IsIndexRecord(r) == r.changeFrequency = Chars("Sitemap Index")

\* C21: the index pass runs only if the url pass produced no record.  A
\* document with a url entry whose loc has text yields no record of a sitemap
\* element; no list mixes records of url entries with records of sitemap
\* elements; a document whose url entries all lack a loc child yields the
\* records of the index pass (or fails for want of any).
C21_IndexOnlyAsFallback ==
  \A p \in DocumentTable :
    ParsedText(p[2]) =>
      /\ (\E i \in 1..Len(p[1]) : p[1][i].tag = "url" /\ HasLocText(p[1][i]))
           => (lastParse[1].ok
               /\ \A i \in 1..Len(lastParse[1].urls) : ~IsIndexRecord(lastParse[1].urls[i]))
      /\ \/ \A i \in 1..Len(lastParse[1].urls) : IsIndexRecord(lastParse[1].urls[i])
         \/ \A i \in 1..Len(lastParse[1].urls) : ~IsIndexRecord(lastParse[1].urls[i])
      /\ (\A i \in 1..Len(p[1]) : p[1][i].tag = "url" => ~HasLoc(p[1][i]))
           => lastParse[1].urls = ExpectedIndexRecords(IndexEntries(p[1]))


\* C22: every started parse finishes: isProcessing, once true, becomes
\* false again; and the step that makes it false leaves a non-empty error
\* message, or leaves the parse's own non-empty result as the held list.
C22_ParseFinishes ==
  /\ isProcessing ~> ~isProcessing
  /\ [][ (isProcessing /\ ~isProcessing') =>
           \/ error' # ""
           \/ /\ lastParse'[1].ok
              /\ lastParse'[1].urls # <<>>
              /\ sitemapData' = lastParse'[1].urls ]_vars

\* a parse that read its file has finished without a record, after one that
\* finished with records
C22_Witness ==
  /\ ~isProcessing
  /\ calls = <<>>
  /\ Parsed
  /\ lastParse[1].message = "No URLs found in the sitemap"
  /\ error = "No URLs found in the sitemap"
  /\ activeTab = "upload"
  /\ sitemapData # <<>>


\* C23: in every reachable state the pasted text is empty while the upload
\* tab is active and no file is selected while the paste tab is active, so
\* a file and pasted text are never held together.
C23_ModeExclusive ==
  /\ activeTab = "upload" => xmlContent = <<>>
  /\ activeTab = "paste" => file = NoFile
  /\ ~(file # NoFile /\ xmlContent # <<>>)

\* a file is selected on the upload tab while a parse of text pasted before
\* the switch is still running
C23_Witness ==
  /\ activeTab = "upload"
  /\ file # NoFile
  /\ xmlContent = <<>>
  /\ calls # <<>>
  /\ calls[1].activeTab = "paste"
  /\ calls[1].xmlContent # <<>>


\* C24 as stated: "Invalid XML format" is reported only for text that is
\* not well-formed XML; a well-formed document is never rejected with it,
\* whatever its element names.
C24_OnlyMalformedRejected ==
  (Parsed /\ lastParse[1].message = "Invalid XML format") =>
    ~WellFormed(lastParse[1].text)


\* the input currently held: the text of the selected file on the upload
\* tab, the trimmed pasted text on the paste tab; <<>> when there is none
HeldInput ==
  IF activeTab = "upload" THEN (IF file = NoFile THEN <<>> ELSE file[1])
  ELSE Trim(xmlContent)

\* C25 as stated: whenever records are displayed and no parse is in flight,
\* they are the records extracted from the input currently held.
C25_RecordsOfHeldInput ==
  (sitemapData # <<>> /\ calls = <<>>) =>
    /\ HeldInput # <<>>
    /\ Converted(HeldInput).ok
    /\ sitemapData = Converted(HeldInput).urls


\* C26 as stated: the sanitized text contains no occurrence, in any letter
\* case, of any of the four notices, whatever the input.
C26_NoNoticeLeft ==
  Sanitized =>
    \A m \in 1..Len(BrowserMessages) : SearchCI(lastParse[1].text, BrowserMessages[m]) = -1


\* t is s from one of its marker occurrences on, without trailing whitespace
FromSomeMarker(s, t) ==
  \E i \in MarkerPositions(s) : t = TrimEnd(SubSeq(s, i, Len(s)))

\* C27: when the stripped input contains a marker, the sanitized text
\* begins with "<" at a marker occurrence, is a suffix of the stripped input
\* with only trailing whitespace removed, and the line step removes nothing
\* from what the marker step left.
C27_CutAtMarker ==
  (Sanitized /\ ~NoMarker(StripMessages(lastParse[1].content))) =>
    /\ StartsWith(lastParse[1].text, <<"<">>)
    /\ \E m \in Markers : MatchAtCI(lastParse[1].text, 1, m)
    /\ FromSomeMarker(StripMessages(lastParse[1].content), lastParse[1].text)
    /\ DropLeadingLines(CutAtXmlStart(StripMessages(lastParse[1].content)))
         = CutAtXmlStart(StripMessages(lastParse[1].content))

\* plain text, a blank line and plain text again above a urlset: the cut is
\* made at the marker, past the blank line
C27_Witness ==
  /\ ParsedText(Chars("Sitemap\n\nSitemap\n") \o EndToEndText)
  /\ lastParse[1].text = EndToEndText
  /\ lastParse[1].ok


\* the number of pairs in an alternates text, which joins them with "; "
PairsIn(alternates) ==
  1 + Cardinality({ i \in 1..Len(alternates) : MatchAtCI(alternates, i, Chars("; ")) })

\* C28: an alternate link without hreflang or href is not skipped: it gives
\* a pair with the text "null" in the place of the missing attribute, and
\* the pairs are as many as the link elements, here and in every document
\* of the table.
C28_NullForMissing ==
  /\ \A p \in PartialLinkTable :
       ParsedText(p.text) =>
         /\ lastParse[1].ok
         /\ Len(sitemapData) = 1
         /\ "alternates" \in DOMAIN sitemapData[1]
         /\ sitemapData[1].alternates = p.pairs
         /\ PairsIn(sitemapData[1].alternates) = p.links
  /\ \A p \in DocumentTable :
       (ParsedText(p[2]) /\ IsUrlSitemapWithLocText(p[1])) =>
         \A i \in 1..Len(p[1]) :
           IF p[1][i].links = <<>>
             THEN "alternates" \notin DOMAIN sitemapData[i]
             ELSE PairsIn(sitemapData[i].alternates) = Len(p[1][i].links)

\* a link without hreflang followed by a link without href
C28_Witness ==
  /\ Parsed
  /\ sitemapData # <<>>
  /\ "alternates" \in DOMAIN sitemapData[1]
  /\ sitemapData[1].alternates = Chars("null: https://x/en; fr: null")


\* C29: from a call of stopProcessing or stopSimpleProcessing until the next
\* call of a start method the favicon is the original icon, whichever
\* image-load and animation-frame callbacks scheduled before the stop fire
\* in between.
C29_OriginalAfterStop ==
  lastCall \in { "stopProcessing", "stopSimpleProcessing" } =>
    (currentFavicon = originalFavicon /\ ~faviconIsProcessing)

\* stopSimpleProcessing cancels nothing; the frame requested last before
\* it has fired since, an image is still loading, and the icon is the
\* original
C29_Witness ==
  /\ lastCall = "stopSimpleProcessing"
  /\ animationFrame # 0
  /\ \A r \in frameRequests : r.id # animationFrame
  /\ imagesLoading > 0
  /\ currentFavicon = originalFavicon

====
